---- MODULE Spec2Model ----
(***************************************************************************)
(* A model of src/src/market.rs: the Market handle of the openbook client. *)
(* The handle's fields are the record `market`; the remote ledger is the   *)
(* environment, whose answers are drawn from small sets at every remote    *)
(* call.  `calls` is the trace of remote calls made by the invocation in   *)
(* progress (or the last one finished) and `result` is what that           *)
(* invocation returned.  load() holds `&mut self` across its suspension    *)
(* points, so no other operation of the handle runs until it returns: `pc` *)
(* is load()'s position and `frame` its locals.                            *)
(***************************************************************************)
EXTENDS Integers, Sequences, FiniteSets, TLC

VARIABLES market, calls, result, pc, frame

vars == <<market, calls, result, pc, frame>>

(***************************************************************************)
(* Bounds of the model.                                                    *)
(***************************************************************************)
NumOrderKeys == 2
NumMarketStates == 2
MaxTicks == 1
NumBlockhashes == 1
MaxBid == 1
MaxOrderId == 1
MaxLimit == 1
MaxTag == 0
MaxAccounts == 1
MaxDuration == 1

(***************************************************************************)
(* Program constants.                                                      *)
(***************************************************************************)
PubkeyBytes == 32
SeedTs == 123456789
UiPriceScale == 10000
ExpirySecs == 30
U16Max == 65535
InitCoinDecimals == 9
InitPcDecimals == 6
InitCoinLotSize == 1000000
InitPcLotSize == 1

(***************************************************************************)
(* Addresses.  A Pubkey is its 32 bytes; a [u64; 4] field of an on-chain   *)
(* structure is four words, each word being its 8 bytes in memory order.   *)
(***************************************************************************)
Key(b) == [i \in 1..PubkeyBytes |-> (b + i - 1) % 256]

U64x4(b) ==
    LET n == PubkeyBytes \div 4
    IN  [w \in 1..4 |-> [i \in 1..n |-> (b + n * (w - 1) + i - 1) % 256]]

DefaultPubkey == [i \in 1..PubkeyBytes |-> 0]

ProgramId == Key(200)
ForeignProgram == Key(210)
MarketAddress == Key(100)
KeypairPubkey == Key(110)
OtherOwner == Key(120)
AtaAddress == Key(130)
TokenProgramId == Key(140)
RentSysvarId == Key(150)
OrdersKeyWords == U64x4(160)
ForeignOrdersWords == U64x4(170)

u64_slice_to_bytes(array) == array[1] \o array[2] \o array[3] \o array[4]

OrdersKey == u64_slice_to_bytes(OrdersKeyWords)

(***************************************************************************)
(* The ledger's accounts.                                                  *)
(***************************************************************************)
\* The market control block (openbook_dex::state::MarketState), k-th variant.
MarketStateOf(k) ==
    [ coin_vault |-> U64x4(10 * k + 1),
      pc_vault |-> U64x4(10 * k + 2),
      req_q |-> U64x4(10 * k + 3),
      event_q |-> U64x4(10 * k + 4),
      bids |-> U64x4(10 * k + 5),
      asks |-> U64x4(10 * k + 6),
      account_flags |-> k,
      coin_lot_size |-> (k - 1) * 500000,
      pc_lot_size |-> k + 1 ]

MarketStates == {MarketStateOf(k) : k \in 1..NumMarketStates}

\* An order id is 128 bits: the price in the upper 64, a sequence number below.
OrderIdOf(k) == [hi |-> (k \div 2) + 1, lo |-> k % 2]

OrderIds == {OrderIdOf(k) : k \in 1..NumOrderKeys}

Nodes == [key : OrderIds, owner : {OrdersKeyWords, ForeignOrdersWords}]

\* A slab is a set of leaf nodes with distinct keys.
Slabs ==
    {s \in SUBSET Nodes : \A n1, n2 \in s : n1.key = n2.key => n1 = n2}

\* What get_account can return for the market address.
MarketAccounts ==
    [owner : {ProgramId}, valid : BOOLEAN, state : MarketStates]
        \cup [owner : {ForeignProgram}, valid : {TRUE}, state : MarketStates]

\* What get_account can return for a bids or asks address.
SlabAccounts ==
    [owner : {ProgramId}, valid : {TRUE}, slab : Slabs]
        \cup [owner : {ProgramId}, valid : {FALSE}, slab : {{}}]
        \cup [owner : {ForeignProgram}, valid : {TRUE},
              slab : {{n} : n \in {m \in Nodes : m.owner = OrdersKeyWords}}]

RpcError == [ok |-> FALSE]

RpcOk(v) == [ok |-> TRUE, value |-> v]

Call(name, arg, ret) == [name |-> name, arg |-> arg, ret |-> ret]

(***************************************************************************)
(* The order-book extractor.                                               *)
(***************************************************************************)
KeyLess(a, b) == a.hi < b.hi \/ (a.hi = b.hi /\ a.lo < b.lo)

\* bids.remove_max(): the node taken out; the caller keeps the rest.
remove_max(slab) == CHOOSE n \in slab : \A m \in slab : m = n \/ KeyLess(m.key, n.key)

\* asks.remove_min(): the node taken out; the caller keeps the rest.
remove_min(slab) == CHOOSE n \in slab : \A m \in slab : m = n \/ KeyLess(n.key, m.key)

\* node.price(): the upper 64 bits of the key.
price(node) == node.key.hi

\* price_raw as f64 / 1e4, kept as the exact quotient.
ui_price(price_raw) == [num |-> price_raw, den |-> UiPriceScale]

RECURSIVE process_bids_walking(_, _)
process_bids_walking(orders_key, bids) ==
    IF bids = {}
    THEN [ids |-> <<>>, prices |-> <<>>, extreme |-> 0, steps |-> 1, rest |-> bids]
    ELSE LET node == remove_max(bids)
             own == u64_slice_to_bytes(node.owner) = orders_key
             tail == process_bids_walking(orders_key, bids \ {node})
         IN  [ids |-> (IF own THEN <<node.key>> ELSE <<>>) \o tail.ids,
              prices |-> (IF own THEN <<ui_price(price(node))>> ELSE <<>>) \o tail.prices,
              extreme |-> price(node), steps |-> tail.steps + 1, rest |-> {}]

\* process_bids: one remove_max, then break.
process_bids(orders_key, bids) ==
    IF bids = {}
    THEN [ids |-> <<>>, prices |-> <<>>, extreme |-> 0, steps |-> 1, rest |-> bids]
    ELSE LET node == remove_max(bids)
             owner_address == u64_slice_to_bytes(node.owner)
             price_raw == price(node)
             own == owner_address = orders_key
         IN  [ids |-> IF own THEN <<node.key>> ELSE <<>>,
              prices |-> IF own THEN <<ui_price(price_raw)>> ELSE <<>>,
              extreme |-> price_raw, steps |-> 1, rest |-> bids \ {node}]

RECURSIVE process_asks_loop(_, _, _, _, _, _)
process_asks_loop(orders_key, asks, min_ask, open_asks, open_asks_prices, steps) ==
    IF asks = {}
    THEN [ids |-> open_asks, prices |-> open_asks_prices, extreme |-> min_ask,
          steps |-> steps + 1, rest |-> asks]
    ELSE LET node == remove_min(asks)
             owner_address == u64_slice_to_bytes(node.owner)
             price_raw == price(node)
             own == owner_address = orders_key
         IN  process_asks_loop(orders_key, asks \ {node},
                 IF min_ask = 0 THEN price_raw ELSE min_ask,
                 IF own THEN Append(open_asks, node.key) ELSE open_asks,
                 IF own THEN Append(open_asks_prices, ui_price(price_raw))
                        ELSE open_asks_prices,
                 steps + 1)

process_asks_stopping_early(orders_key, asks) ==
    IF asks = {}
    THEN process_asks_loop(orders_key, asks, 0, <<>>, <<>>, 0)
    ELSE LET last == remove_max(asks)
             walked == process_asks_loop(orders_key, asks \ {last}, 0, <<>>, <<>>, 0)
         IN  [walked EXCEPT !.rest = {last}]

process_asks_newest_first(orders_key, asks) ==
    LET walked == process_asks_loop(orders_key, asks, 0, <<>>, <<>>, 0)
        n == Len(walked.ids)
    IN  [walked EXCEPT !.ids = [i \in 1..n |-> walked.ids[n + 1 - i]]]

process_asks_seeded(orders_key, asks) ==
    process_asks_loop(orders_key, asks, 1, <<>>, <<>>, 0)

process_asks_top_only(orders_key, asks) ==
    IF asks = {}
    THEN [ids |-> <<>>, prices |-> <<>>, extreme |-> 0, steps |-> 1, rest |-> asks]
    ELSE LET node == remove_min(asks)
             own == u64_slice_to_bytes(node.owner) = orders_key
         IN  [ids |-> IF own THEN <<node.key>> ELSE <<>>,
              prices |-> IF own THEN <<ui_price(price(node))>> ELSE <<>>,
              extreme |-> price(node), steps |-> 1, rest |-> asks \ {node}]

\* process_asks: remove_min until the tree is empty.
process_asks(orders_key, asks) == process_asks_loop(orders_key, asks, 0, <<>>, <<>>, 0)

get_bids_asks_addresses_swapped(market_state) ==
    [bids_address |-> u64_slice_to_bytes(market_state.asks),
     asks_address |-> u64_slice_to_bytes(market_state.bids)]

get_bids_asks_addresses(market_state) ==
    [bids_address |-> u64_slice_to_bytes(market_state.bids),
     asks_address |-> u64_slice_to_bytes(market_state.asks)]

\* MarketInfo as assembled at the end of load_bids_asks_info.
MarketInfoOf(addresses, b, a) ==
    [ min_ask |-> a.extreme,
      max_bid |-> b.extreme,
      open_asks |-> a.ids,
      open_bids |-> b.ids,
      bids_address |-> addresses.bids_address,
      asks_address |-> addresses.asks_address,
      open_asks_prices |-> a.prices,
      open_bids_prices |-> b.prices,
      base_total |-> 0,
      quote_total |-> 0 ]

AssignMarketState_setting_vault_signer(m, market_state) ==
    [m EXCEPT !.coin_vault = u64_slice_to_bytes(market_state.coin_vault),
              !.pc_vault = u64_slice_to_bytes(market_state.pc_vault),
              !.request_queue = u64_slice_to_bytes(market_state.req_q),
              !.account_flags = market_state.account_flags,
              !.coin_lot_size = market_state.coin_lot_size,
              !.pc_lot_size = market_state.pc_lot_size,
              !.event_queue = u64_slice_to_bytes(market_state.event_q),
              !.vault_signer_key = u64_slice_to_bytes(market_state.coin_vault)]

AssignMarketState_keep_pc_vault(m, market_state) ==
    [m EXCEPT !.coin_vault = u64_slice_to_bytes(market_state.coin_vault),
              !.request_queue = u64_slice_to_bytes(market_state.req_q),
              !.account_flags = market_state.account_flags,
              !.coin_lot_size = market_state.coin_lot_size,
              !.pc_lot_size = market_state.pc_lot_size,
              !.event_queue = u64_slice_to_bytes(market_state.event_q)]

AssignMarketState_keeping_lot_sizes(m, market_state) ==
    [m EXCEPT !.coin_vault = u64_slice_to_bytes(market_state.coin_vault),
              !.pc_vault = u64_slice_to_bytes(market_state.pc_vault),
              !.request_queue = u64_slice_to_bytes(market_state.req_q),
              !.account_flags = market_state.account_flags,
              !.event_queue = u64_slice_to_bytes(market_state.event_q)]

\* The field assignments of load_market_state_bids_info.
AssignMarketState(m, market_state) ==
    [m EXCEPT !.coin_vault = u64_slice_to_bytes(market_state.coin_vault),
              !.pc_vault = u64_slice_to_bytes(market_state.pc_vault),
              !.request_queue = u64_slice_to_bytes(market_state.req_q),
              !.account_flags = market_state.account_flags,
              !.coin_lot_size = market_state.coin_lot_size,
              !.pc_lot_size = market_state.pc_lot_size,
              !.event_queue = u64_slice_to_bytes(market_state.event_q)]

(***************************************************************************)
(* The handle.                                                             *)
(***************************************************************************)
EmptyExtract == [ids |-> <<>>, prices |-> <<>>, extreme |-> 0, steps |-> 0, rest |-> {}]

\* The locals load() holds across its suspension points.
EmptyFrame ==
    [ market_state |-> MarketStateOf(1),
      addresses |-> get_bids_asks_addresses(MarketStateOf(1)),
      bids |-> EmptyExtract ]

Result(op, args, status, value) ==
    [op |-> op, args |-> args, status |-> status, value |-> value]

\* No invocation is in progress and none has returned unobserved.
NoResult == Result("none", <<>>, "none", <<>>)

\* HashMap<Pubkey, OpenOrdersCacheEntry> as the set of its (key, value) pairs.
HashMap_new == {}

HashMap_insert_duplicating(map, k, v) ==
    map \cup {[key |-> k, value |-> v], [key |-> k, value |-> [v EXCEPT !.ts = 0]]}

\* insert replaces the value an equal key already had.
HashMap_insert(map, k, v) ==
    {e \in map : e.key # k} \cup {[key |-> k, value |-> v]}

HashMap_contains_key(map, k) == \E e \in map : e.key = k

\* get(k) where it is Some.
HashMap_get(map, k) == (CHOOSE e \in map : e.key = k).value

\* The cache entry Market::new inserts under the handle's own address.
SeedCacheEntry ==
    [ accounts |-> <<[address |-> MarketAddress, owner |-> KeypairPubkey]>>,
      ts |-> SeedTs ]

\* The handle as Market::new leaves it: the literal fields, then a successful
\* load() made while orders_key is still the default address, then the
\* token-account and orders-key fields.
NewMarket(market_state, bids, asks) ==
    LET literal ==
            [ program_id |-> ProgramId,
              market_address |-> MarketAddress,
              keypair |-> KeypairPubkey,
              coin_decimals |-> InitCoinDecimals,
              pc_decimals |-> InitPcDecimals,
              coin_lot_size |-> InitCoinLotSize,
              pc_lot_size |-> InitPcLotSize,
              usdc_ata |-> DefaultPubkey,
              wsol_ata |-> DefaultPubkey,
              coin_vault |-> DefaultPubkey,
              pc_vault |-> DefaultPubkey,
              vault_signer_key |-> DefaultPubkey,
              orders_key |-> DefaultPubkey,
              event_queue |-> DefaultPubkey,
              request_queue |-> DefaultPubkey,
              account_flags |-> 0,
              open_orders_accounts_cache |->
                  HashMap_insert(HashMap_new, KeypairPubkey, SeedCacheEntry),
              market_info |-> MarketInfoOf(
                  [bids_address |-> DefaultPubkey, asks_address |-> DefaultPubkey],
                  EmptyExtract, EmptyExtract) ]
        loaded == AssignMarketState(literal, market_state)
    IN  [loaded EXCEPT
            !.market_info = MarketInfoOf(get_bids_asks_addresses(market_state),
                                process_bids(DefaultPubkey, bids),
                                process_asks(DefaultPubkey, asks)),
            !.usdc_ata = AtaAddress,
            !.wsol_ata = AtaAddress,
            !.orders_key = OrdersKey]

\* The three reads of the load() that Market::new runs and unwraps.
NewLoadCalls(market_state, bids, asks) ==
    LET addresses == get_bids_asks_addresses(market_state)
    IN  << Call("get_account", MarketAddress,
                RpcOk([owner |-> ProgramId, valid |-> TRUE, state |-> market_state])),
           Call("get_account", addresses.bids_address,
                RpcOk([owner |-> ProgramId, valid |-> TRUE, slab |-> bids])),
           Call("get_account", addresses.asks_address,
                RpcOk([owner |-> ProgramId, valid |-> TRUE, slab |-> asks])) >>

\* Market::new has just returned the handle; `calls` holds the reads of its
\* load(), whose answers the handle's fields were computed from.
Init ==
    /\ \E ms \in MarketStates, b \in Slabs, a \in Slabs :
          /\ market = NewMarket(ms, b, a)
          /\ calls = NewLoadCalls(ms, b, a)
    /\ result = Result("new", <<>>, "Ok", <<>>)
    /\ pc = "returned"
    /\ frame = EmptyFrame

(***************************************************************************)
(* load(): three remote reads, each a suspension point.                    *)
(***************************************************************************)
OwnershipMismatch_forged(m, account) == m.program_id # m.program_id

\* The test `self.program_id != owner`.
OwnershipMismatch(m, account) == m.program_id # account.owner

LoadFailed(call, status) ==
    /\ calls' = Append(calls, call)
    /\ result' = Result("load", <<>>, status, <<>>)
    /\ pc' = "returned"
    /\ frame' = EmptyFrame

\* load() up to its second get_account: fetch the market account, check its
\* owner, decode it and assign the address fields.
load ==
    /\ pc = "idle"
    /\ \E ret \in {RpcError} \cup {RpcOk(a) : a \in MarketAccounts} :
        LET call == Call("get_account", market.market_address, ret)
        IN  IF ~ret.ok
            THEN /\ calls' = <<call>>
                 /\ result' = Result("load", <<>>, "RpcError", <<>>)
                 /\ pc' = "returned"
                 /\ UNCHANGED <<market, frame>>
            ELSE IF OwnershipMismatch(market, ret.value)
            THEN /\ calls' = <<call>>
                 /\ result' = Result("load", <<>>, "InvalidArgument", <<>>)
                 /\ pc' = "returned"
                 /\ UNCHANGED <<market, frame>>
            ELSE IF ~ret.value.valid
            THEN /\ calls' = <<call>>
                 /\ result' = Result("load", <<>>, "DecodeError", <<>>)
                 /\ pc' = "returned"
                 /\ UNCHANGED <<market, frame>>
            ELSE /\ calls' = <<call>>
                 /\ result' = Result("load", <<>>, "Pending", <<>>)
                 /\ market' = AssignMarketState(market, ret.value.state)
                 /\ pc' = "load_bids"
                 /\ frame' = [ market_state |-> ret.value.state,
                               addresses |-> get_bids_asks_addresses(ret.value.state),
                               bids |-> EmptyExtract ]

load_bids_asks_info_bids_lenient ==
    /\ pc = "load_bids"
    /\ \E ret \in {RpcError} \cup {RpcOk(a) : a \in SlabAccounts} :
        LET call == Call("get_account", frame.addresses.bids_address, ret)
        IN  /\ calls' = Append(calls, call)
            /\ frame' = [frame EXCEPT
                           !.bids = IF ret.ok /\ ret.value.valid
                                    THEN process_bids(market.orders_key, ret.value.slab)
                                    ELSE EmptyExtract]
            /\ pc' = "load_asks"
            /\ UNCHANGED result
    /\ UNCHANGED market

\* load_bids_asks_info from the bids fetch to the asks fetch.
load_bids_asks_info_bids ==
    /\ pc = "load_bids"
    /\ \E ret \in {RpcError} \cup {RpcOk(a) : a \in SlabAccounts} :
        LET call == Call("get_account", frame.addresses.bids_address, ret)
        IN  IF ~ret.ok
            THEN LoadFailed(call, "RpcError")
            ELSE IF ~ret.value.valid
            THEN LoadFailed(call, "DecodeError")
            ELSE /\ calls' = Append(calls, call)
                 /\ frame' = [frame EXCEPT
                                !.bids = process_bids(market.orders_key, ret.value.slab)]
                 /\ pc' = "load_asks"
                 /\ UNCHANGED result
    /\ UNCHANGED market

load_bids_asks_info_asks_merging ==
    /\ pc = "load_asks"
    /\ \E ret \in {RpcError} \cup {RpcOk(a) : a \in SlabAccounts} :
        LET call == Call("get_account", frame.addresses.asks_address, ret)
        IN  IF ~ret.ok
            THEN LoadFailed(call, "RpcError") /\ UNCHANGED market
            ELSE IF ~ret.value.valid
            THEN LoadFailed(call, "DecodeError") /\ UNCHANGED market
            ELSE LET a == process_asks(market.orders_key, ret.value.slab)
                     old == market.market_info
                     kept == [ids |-> old.open_asks \o a.ids,
                              prices |-> old.open_asks_prices \o a.prices,
                              extreme |-> a.extreme]
                 IN  /\ calls' = Append(calls, call)
                     /\ market' = [market EXCEPT
                            !.market_info = MarketInfoOf(frame.addresses, frame.bids, kept)]
                     /\ result' = Result("load", <<>>, "Ok", frame.market_state)
                     /\ pc' = "returned"
                     /\ frame' = EmptyFrame

\* load_bids_asks_info from the asks fetch to the end of load().
load_bids_asks_info_asks ==
    /\ pc = "load_asks"
    /\ \E ret \in {RpcError} \cup {RpcOk(a) : a \in SlabAccounts} :
        LET call == Call("get_account", frame.addresses.asks_address, ret)
        IN  IF ~ret.ok
            THEN LoadFailed(call, "RpcError") /\ UNCHANGED market
            ELSE IF ~ret.value.valid
            THEN LoadFailed(call, "DecodeError") /\ UNCHANGED market
            ELSE /\ calls' = Append(calls, call)
                 /\ market' = [market EXCEPT
                        !.market_info = MarketInfoOf(frame.addresses, frame.bids,
                                            process_asks(market.orders_key, ret.value.slab))]
                 /\ result' = Result("load", <<>>, "Ok", frame.market_state)
                 /\ pc' = "returned"
                 /\ frame' = EmptyFrame

(***************************************************************************)
(* The order operations.  Each runs from call to return in one step: it    *)
(* borrows the handle for its whole duration and changes none of it.       *)
(***************************************************************************)
\* What the system clock can read.
Times == SeedTs..(SeedTs + MaxTicks)

Blockhashes == {[hash |-> h] : h \in 1..NumBlockhashes}

\* Hash::default(), the recent_blockhash of a message nobody set one on.
DefaultHash == [hash |-> 0]

Transaction_new_signed_with_payer(instructions, payer, signers, recent_blockhash) ==
    [ message |-> [payer |-> payer, instructions |-> instructions,
                   recent_blockhash |-> recent_blockhash],
      signatures |-> signers ]

Transaction_new_with_payer(instructions, payer) ==
    [ message |-> [payer |-> payer, instructions |-> instructions,
                   recent_blockhash |-> DefaultHash],
      signatures |-> {} ]

RpcSendTransactionConfig_default == [skip_preflight |-> FALSE, max_retries |-> "None"]

SendConfig_preflight == RpcSendTransactionConfig_default

\* config = RpcSendTransactionConfig::default(); config.skip_preflight = true
SendConfig == [RpcSendTransactionConfig_default EXCEPT !.skip_preflight = TRUE]

target_usdc_lots == 1 * 1000000

\* (1.0 * 1e6 * 1.1) as u64
target_usdc_lots_w_fee == (1 * 1000000 * 11) \div 10

new_order(m, max_bid, tag, secs) ==
    [ kind |-> "new_order",
      market |-> m.market_address,
      open_orders |-> m.orders_key,
      request_queue |-> m.request_queue,
      event_queue |-> m.event_queue,
      bids |-> m.market_info.bids_address,
      asks |-> m.market_info.asks_address,
      payer |-> m.usdc_ata,
      owner |-> m.keypair,
      coin_vault |-> m.coin_vault,
      pc_vault |-> m.pc_vault,
      spl_token_program |-> TokenProgramId,
      rent_sysvar |-> RentSysvarId,
      srm_account_referral |-> "None",
      program_id |-> m.program_id,
      side |-> "Bid",
      limit_price |-> max_bid,
      max_coin_qty |-> m.coin_lot_size,
      order_type |-> "PostOnly",
      client_order_id |-> tag,
      self_trade_behavior |-> "AbortTransaction",
      limit |-> U16Max,
      max_native_pc_qty_including_fees |-> target_usdc_lots_w_fee,
      max_ts |-> secs + ExpirySecs ]

cancel_order_ix_shifted(m, order_id) ==
    [ kind |-> "cancel_order",
      program_id |-> m.program_id,
      market |-> m.market_address,
      bids |-> m.market_info.bids_address,
      asks |-> m.market_info.asks_address,
      open_orders |-> m.orders_key,
      owner |-> m.keypair,
      event_queue |-> m.event_queue,
      side |-> "Bid",
      order_id |-> [hi |-> order_id, lo |-> 0] ]

\* Side::Bid and `order_id as u128`: the upper 64 bits are zero.
cancel_order_ix(m, order_id) ==
    [ kind |-> "cancel_order",
      program_id |-> m.program_id,
      market |-> m.market_address,
      bids |-> m.market_info.bids_address,
      asks |-> m.market_info.asks_address,
      open_orders |-> m.orders_key,
      owner |-> m.keypair,
      event_queue |-> m.event_queue,
      side |-> "Bid",
      order_id |-> [hi |-> 0, lo |-> order_id] ]

settle_funds(m) ==
    [ kind |-> "settle_funds",
      program_id |-> m.program_id,
      market |-> m.market_address,
      spl_token_program |-> TokenProgramId,
      open_orders |-> m.orders_key,
      owner |-> m.keypair,
      coin_vault |-> m.coin_vault,
      coin_wallet |-> m.wsol_ata,
      pc_vault |-> m.pc_vault,
      pc_wallet |-> m.usdc_ata,
      referrer_pc_wallet |-> "None",
      vault_signer |-> m.vault_signer_key ]

match_orders(m, limit) ==
    [ kind |-> "match_orders",
      program_id |-> m.program_id,
      market |-> m.market_address,
      request_queue |-> m.request_queue,
      bids |-> m.market_info.bids_address,
      asks |-> m.market_info.asks_address,
      event_queue |-> m.event_queue,
      coin_fee_receivable |-> m.coin_vault,
      pc_fee_receivable |-> m.pc_vault,
      limit |-> limit ]

consume_events(m, open_orders_accounts, limit) ==
    [ kind |-> "consume_events",
      program_id |-> m.program_id,
      open_orders_accounts |-> open_orders_accounts,
      market |-> m.market_address,
      event_queue |-> m.event_queue,
      coin_fee_receivable |-> m.coin_vault,
      pc_fee_receivable |-> m.pc_vault,
      limit |-> limit ]

consume_events_permissioned_own_authority(m, open_orders_accounts, limit) ==
    [ kind |-> "consume_events_permissioned",
      program_id |-> m.program_id,
      open_orders_accounts |-> open_orders_accounts,
      market |-> m.market_address,
      event_queue |-> m.event_queue,
      consume_events_authority |-> m.keypair,
      limit |-> limit ]

consume_events_permissioned(m, open_orders_accounts, limit) ==
    [ kind |-> "consume_events_permissioned",
      program_id |-> m.program_id,
      open_orders_accounts |-> open_orders_accounts,
      market |-> m.market_address,
      event_queue |-> m.event_queue,
      consume_events_authority |-> m.event_queue,
      limit |-> limit ]

\* A failed assert! or unwrap(): the invocation ends before any remote call.
Panicked(op, args, message) ==
    /\ calls' = <<>>
    /\ result' = Result(op, args, "Panic", message)
    /\ pc' = "returned"
    /\ UNCHANGED <<market, frame>>

SubmitSigned_counting(op, args, ix) ==
    /\ \E bh \in {RpcError} \cup {RpcOk(h) : h \in Blockhashes} :
        LET fetch == Call("get_latest_blockhash", <<>>, bh)
        IN  IF ~bh.ok
            THEN /\ calls' = <<fetch>>
                 /\ result' = Result(op, args, "RpcError", bh)
                 /\ market' = market
            ELSE \E sent \in {RpcError, RpcOk("signature")} :
                    LET txn == Transaction_new_signed_with_payer(
                                   <<ix>>, market.keypair, {market.keypair}, bh.value)
                        send == Call("send_transaction_with_config",
                                     [transaction |-> txn, config |-> SendConfig], sent)
                    IN  /\ calls' = <<fetch, send>>
                        /\ result' = Result(op, args,
                                        IF sent.ok THEN "Ok" ELSE "RpcError", sent)
                        /\ market' = IF sent.ok
                                     THEN [market EXCEPT !.market_info.base_total = 1]
                                     ELSE market
    /\ pc' = "returned"
    /\ UNCHANGED frame

SubmitSigned_retrying(op, args, ix) ==
    /\ \E bh \in {RpcError} \cup {RpcOk(h) : h \in Blockhashes} :
        LET fetch == Call("get_latest_blockhash", <<>>, bh)
        IN  IF ~bh.ok
            THEN /\ calls' = <<fetch>>
                 /\ result' = Result(op, args, "RpcError", bh)
            ELSE \E sent \in {RpcError, RpcOk("signature")} :
                    LET txn == Transaction_new_signed_with_payer(
                                   <<ix>>, market.keypair, {market.keypair}, bh.value)
                        send == Call("send_transaction_with_config",
                                     [transaction |-> txn, config |-> SendConfig], sent)
                        again == Call("send_transaction_with_config",
                                      [transaction |-> txn, config |-> SendConfig],
                                      RpcOk("signature"))
                    IN  IF sent.ok
                        THEN /\ calls' = <<fetch, send>>
                             /\ result' = Result(op, args, "Ok", sent)
                        ELSE /\ calls' = <<fetch, send, again>>
                             /\ result' = Result(op, args, "Ok", again.ret)
    /\ pc' = "returned"
    /\ UNCHANGED <<market, frame>>

\* get_latest_blockhash, new_signed_with_payer, send_transaction_with_config.
SubmitSigned(op, args, ix) ==
    /\ \E bh \in {RpcError} \cup {RpcOk(h) : h \in Blockhashes} :
        LET fetch == Call("get_latest_blockhash", <<>>, bh)
        IN  IF ~bh.ok
            THEN /\ calls' = <<fetch>>
                 /\ result' = Result(op, args, "RpcError", bh)
            ELSE \E sent \in {RpcError, RpcOk("signature")} :
                    LET txn == Transaction_new_signed_with_payer(
                                   <<ix>>, market.keypair, {market.keypair}, bh.value)
                        send == Call("send_transaction_with_config",
                                     [transaction |-> txn, config |-> SendConfig], sent)
                    IN  /\ calls' = <<fetch, send>>
                        /\ result' = Result(op, args,
                                        IF sent.ok THEN "Ok" ELSE "RpcError", sent)
    /\ pc' = "returned"
    /\ UNCHANGED <<market, frame>>

\* new_with_payer, send_transaction_with_config.
SubmitUnsigned(op, args, instructions) ==
    /\ \E sent \in {RpcError, RpcOk("signature")} :
        LET tx == Transaction_new_with_payer(instructions, market.keypair)
            send == Call("send_transaction_with_config",
                         [transaction |-> tx, config |-> SendConfig], sent)
        IN  /\ calls' = <<send>>
            /\ result' = Result(op, args,
                            IF sent.ok THEN "Ok" ELSE "RpcError", sent)
    /\ pc' = "returned"
    /\ UNCHANGED <<market, frame>>

place_limit_bid_precondition_none(max_bid) == TRUE

\* assert!(max_bid > 0, ...)
place_limit_bid_precondition(max_bid) == max_bid > 0

place_limit_bid_fetching_first(max_bid, tag, secs) ==
    /\ pc = "idle"
    /\ IF ~place_limit_bid_precondition(max_bid)
       THEN Panicked("place_limit_bid", [max_bid |-> max_bid],
                     "Max bid must be greater than zero")
       ELSE IF market.coin_lot_size = 0
       THEN /\ \E h \in Blockhashes :
                 calls' = <<Call("get_latest_blockhash", <<>>, RpcOk(h))>>
            /\ result' = Result("place_limit_bid", [max_bid |-> max_bid], "Panic",
                                "called Option::unwrap() on a None value")
            /\ pc' = "returned"
            /\ UNCHANGED <<market, frame>>
       ELSE SubmitSigned("place_limit_bid", [max_bid |-> max_bid, secs |-> secs],
                         new_order(market, max_bid, tag, secs))

place_limit_bid(max_bid, tag, secs) ==
    /\ pc = "idle"
    /\ IF ~place_limit_bid_precondition(max_bid)
       THEN Panicked("place_limit_bid", [max_bid |-> max_bid],
                     "Max bid must be greater than zero")
       ELSE IF max_bid = 0 \/ market.coin_lot_size = 0
       THEN Panicked("place_limit_bid", [max_bid |-> max_bid],
                     "called Option::unwrap() on a None value")
       ELSE SubmitSigned("place_limit_bid", [max_bid |-> max_bid, secs |-> secs],
                         new_order(market, max_bid, tag, secs))

cancel_order_precondition_none(order_id) == TRUE

\* assert!(order_id > 0, ...)
cancel_order_precondition(order_id) == order_id > 0

cancel_order(order_id) ==
    /\ pc = "idle"
    /\ IF ~cancel_order_precondition(order_id)
       THEN Panicked("cancel_order", [order_id |-> order_id],
                     "Order ID must be greater than zero")
       ELSE SubmitSigned("cancel_order", [order_id |-> order_id],
                         cancel_order_ix(market, order_id))

settle_balance ==
    /\ pc = "idle"
    /\ SubmitSigned("settle_balance", <<>>, settle_funds(market))

make_match_orders_transaction(limit) ==
    /\ pc = "idle"
    /\ LET tx_instructions == <<>>
           _match_orders_ix == match_orders(market, limit)
       IN  SubmitUnsigned("make_match_orders_transaction", [limit |-> limit],
                          tx_instructions)

make_consume_events_instruction(open_orders_accounts, limit) ==
    /\ pc = "idle"
    /\ LET consume_events_ix == consume_events(market, open_orders_accounts, limit)
       IN  SubmitUnsigned("make_consume_events_instruction",
                          [open_orders_accounts |-> open_orders_accounts, limit |-> limit],
                          <<consume_events_ix>>)

make_consume_events_permissioned_instruction(open_orders_accounts, limit) ==
    /\ pc = "idle"
    /\ LET consume_events_permissioned_ix ==
               consume_events_permissioned(market, open_orders_accounts, limit)
       IN  SubmitUnsigned("make_consume_events_permissioned_instruction",
                          [open_orders_accounts |-> open_orders_accounts, limit |-> limit],
                          <<consume_events_permissioned_ix>>)

(***************************************************************************)
(* The open-orders cache.                                                  *)
(***************************************************************************)
\* What OpenOrders::find_for_market_and_owner can return.
AccountLists == {[i \in 1..n |-> [lamports |-> i]] : n \in 0..MaxAccounts}

\* The lists of open-orders accounts a caller can pass.
OpenOrdersLists == UNION {[1..n -> {OrdersKey, OtherOwner}] : n \in 0..MaxAccounts}

\* The test of lines 1559-1560, whose branch is empty.
CacheIsFresh(cache, owner_address, cache_duration_ms, now) ==
    /\ HashMap_contains_key(cache, owner_address)
    /\ now - HashMap_get(cache, owner_address).ts < cache_duration_ms

FindOpenOrders_storing(op, owner_address, cache_duration_ms, now) ==
    /\ pc = "idle"
    /\ \E ret \in {RpcError} \cup {RpcOk(l) : l \in AccountLists} :
        /\ calls' = <<Call("find_for_market_and_owner",
                           [market |-> market.keypair, owner |-> owner_address], ret)>>
        /\ result' = Result(op,
               [owner_address |-> owner_address,
                cache_duration_ms |-> cache_duration_ms, now |-> now],
               IF ret.ok THEN "Ok" ELSE "RpcError",
               IF ret.ok THEN ret.value ELSE <<>>)
        /\ market' = IF ret.ok
                     THEN [market EXCEPT !.open_orders_accounts_cache =
                              HashMap_insert(@, owner_address,
                                  [accounts |-> ret.value, ts |-> now])]
                     ELSE market
    /\ pc' = "returned"
    /\ UNCHANGED frame

FindOpenOrders_serving_cache(op, owner_address, cache_duration_ms, now) ==
    /\ pc = "idle"
    /\ IF HashMap_contains_key(market.open_orders_accounts_cache, owner_address)
       THEN /\ calls' = <<>>
            /\ result' = Result(op,
                   [owner_address |-> owner_address,
                    cache_duration_ms |-> cache_duration_ms, now |-> now],
                   "Ok", HashMap_get(market.open_orders_accounts_cache, owner_address).accounts)
       ELSE \E ret \in {RpcError} \cup {RpcOk(l) : l \in AccountLists} :
            /\ calls' = <<Call("find_for_market_and_owner",
                               [market |-> market.keypair, owner |-> owner_address], ret)>>
            /\ result' = Result(op,
                   [owner_address |-> owner_address,
                    cache_duration_ms |-> cache_duration_ms, now |-> now],
                   IF ret.ok THEN "Ok" ELSE "RpcError",
                   IF ret.ok THEN ret.value ELSE <<>>)
    /\ pc' = "returned"
    /\ UNCHANGED <<market, frame>>

FindOpenOrders_fresh_hit(op, owner_address, cache_duration_ms, now) ==
    /\ pc = "idle"
    /\ IF CacheIsFresh(market.open_orders_accounts_cache, owner_address,
                       cache_duration_ms, now)
       THEN /\ calls' = <<>>
            /\ result' = Result(op,
                   [owner_address |-> owner_address,
                    cache_duration_ms |-> cache_duration_ms, now |-> now],
                   "Ok", HashMap_get(market.open_orders_accounts_cache, owner_address).accounts)
       ELSE \E ret \in {RpcError} \cup {RpcOk(l) : l \in AccountLists} :
            /\ calls' = <<Call("find_for_market_and_owner",
                               [market |-> market.keypair, owner |-> owner_address], ret)>>
            /\ result' = Result(op,
                   [owner_address |-> owner_address,
                    cache_duration_ms |-> cache_duration_ms, now |-> now],
                   IF ret.ok THEN "Ok" ELSE "RpcError",
                   IF ret.ok THEN ret.value ELSE <<>>)
    /\ pc' = "returned"
    /\ UNCHANGED <<market, frame>>

FindOpenOrders_rewinding(op, owner_address, cache_duration_ms, now) ==
    /\ pc = "idle"
    /\ \E ret \in {RpcError} \cup {RpcOk(l) : l \in AccountLists} :
        /\ calls' = <<Call("find_for_market_and_owner",
                           [market |-> market.keypair, owner |-> owner_address], ret)>>
        /\ result' = Result(op,
               [owner_address |-> owner_address,
                cache_duration_ms |-> cache_duration_ms, now |-> now],
               IF ret.ok THEN "Ok" ELSE "RpcError",
               IF ret.ok THEN ret.value ELSE <<>>)
        /\ market' = IF ret.ok
                     THEN [market EXCEPT !.open_orders_accounts_cache =
                              HashMap_insert(@, owner_address,
                                  [accounts |-> ret.value, ts |-> now - SeedTs])]
                     ELSE market
    /\ pc' = "returned"
    /\ UNCHANGED frame

\* The body of find_open_orders_accounts_for_owner, run on behalf of `op`.
FindOpenOrders(op, owner_address, cache_duration_ms, now) ==
    /\ pc = "idle"
    /\ \E ret \in {RpcError} \cup {RpcOk(l) : l \in AccountLists} :
        /\ calls' = <<Call("find_for_market_and_owner",
                           [market |-> market.keypair, owner |-> owner_address], ret)>>
        /\ result' = Result(op,
               [owner_address |-> owner_address,
                cache_duration_ms |-> cache_duration_ms, now |-> now],
               IF ret.ok THEN "Ok" ELSE "RpcError",
               IF ret.ok THEN ret.value ELSE <<>>)
    /\ pc' = "returned"
    /\ UNCHANGED <<market, frame>>

find_open_orders_accounts_for_owner(owner_address, cache_duration_ms, now) ==
    FindOpenOrders("find_open_orders_accounts_for_owner",
                   owner_address, cache_duration_ms, now)

\* load_bids() and load_asks() only clone market_info; then the lookup.
load_orders_for_owner(cache_duration_ms, now) ==
    FindOpenOrders("load_orders_for_owner", market.keypair, cache_duration_ms, now)

\* A [u64; 4] field all of whose bytes are b.
Filled(b) == [w \in 1..4 |-> [i \in 1..8 |-> b]]

\* The control block of the documented example: bids [1; 32], asks [2; 32].
ExampleMarketState ==
    [MarketStateOf(1) EXCEPT !.bids = Filled(1), !.asks = Filled(2)]

\* get_bids_asks_addresses called by the handle's user on a decoded block.
call_get_bids_asks_addresses(market_state) ==
    /\ pc = "idle"
    /\ calls' = <<>>
    /\ result' = Result("get_bids_asks_addresses", [market_state |-> market_state],
                        "Ok", get_bids_asks_addresses(market_state))
    /\ pc' = "returned"
    /\ UNCHANGED <<market, frame>>

(***************************************************************************)
(* The snapshot getters.                                                   *)
(***************************************************************************)
load_orders_default(m, _address) ==
    MarketInfoOf([bids_address |-> DefaultPubkey, asks_address |-> DefaultPubkey],
                 EmptyExtract, EmptyExtract)

\* load_orders ignores its address and clones the stored snapshot.
load_orders(m, _address) == m.market_info

load_bids ==
    /\ pc = "idle"
    /\ calls' = <<>>
    /\ result' = Result("load_bids", <<>>, "Ok",
                        load_orders(market, market.market_info.bids_address))
    /\ pc' = "returned"
    /\ UNCHANGED <<market, frame>>

load_asks ==
    /\ pc = "idle"
    /\ calls' = <<>>
    /\ result' = Result("load_asks", <<>>, "Ok",
                        load_orders(market, market.market_info.asks_address))
    /\ pc' = "returned"
    /\ UNCHANGED <<market, frame>>

(***************************************************************************)
(* The associated token account.                                           *)
(***************************************************************************)
\* get_associated_token_address(&wallet.pubkey(), mint): the derived address.
get_associated_token_address(wallet, mint) == AtaAddress

OtherTokenAccount == Key(135)

\* What get_token_accounts_by_owner can return: the accounts' addresses.
TokenLists == UNION {[1..n -> {AtaAddress, OtherTokenAccount}] : n \in 0..MaxAccounts}

create_associated_token_account(funding_address, wallet_address, mint) ==
    [ kind |-> "create_associated_token_account",
      funding_address |-> funding_address,
      wallet_address |-> wallet_address,
      token_mint_address |-> mint,
      token_program_id |-> TokenProgramId ]

find_or_create_associated_token_account(wallet, mint) ==
    /\ pc = "idle"
    /\ LET op == "find_or_create_associated_token_account"
           args == [wallet |-> wallet, mint |-> mint]
           ata_address == get_associated_token_address(wallet, mint)
       IN  \E tokens \in {RpcError} \cup {RpcOk(l) : l \in TokenLists} :
             LET list == Call("get_token_accounts_by_owner",
                              [owner |-> wallet, filter |-> TokenProgramId], tokens)
             IN  IF ~tokens.ok
                 THEN /\ calls' = <<list>>
                      /\ result' = Result(op, args, "RpcError", tokens)
                 ELSE IF \E i \in 1..Len(tokens.value) : tokens.value[i] = ata_address
                 THEN /\ calls' = <<list>>
                      /\ result' = Result(op, args, "Ok", ata_address)
                 ELSE \E bh \in {RpcError} \cup {RpcOk(h) : h \in Blockhashes} :
                        LET fetch == Call("get_latest_blockhash", <<>>, bh)
                        IN  IF ~bh.ok
                            THEN /\ calls' = <<list, fetch>>
                                 /\ result' = Result(op, args, "RpcError", bh)
                            ELSE \E sent \in {RpcError, RpcOk("signature")} :
                                   LET create_ata_ix ==
                                           create_associated_token_account(
                                               wallet, ata_address, mint)
                                       transaction ==
                                           Transaction_new_signed_with_payer(
                                               <<create_ata_ix>>, wallet, {wallet},
                                               bh.value)
                                       send == Call("send_and_confirm_transaction",
                                                    [transaction |-> transaction], sent)
                                   IN  /\ calls' = <<list, fetch, send>>
                                       \* the match on `result` only logs
                                       /\ result' = Result(op, args, "Ok", ata_address)
    /\ pc' = "returned"
    /\ UNCHANGED <<market, frame>>

\* The caller takes the invocation's result; the handle is free again.
Return ==
    /\ pc = "returned"
    /\ pc' = "idle"
    /\ calls' = <<>>
    /\ result' = NoResult
    /\ UNCHANGED <<market, frame>>

Next ==
    \/ Return
    \/ load
    \/ load_bids_asks_info_bids
    \/ load_bids_asks_info_asks
    \/ \E max_bid \in 0..MaxBid, tag \in 0..MaxTag, secs \in Times :
            place_limit_bid(max_bid, tag, secs)
    \/ \E order_id \in 0..MaxOrderId : cancel_order(order_id)
    \/ settle_balance
    \/ \E limit \in 0..MaxLimit : make_match_orders_transaction(limit)
    \/ \E ooa \in OpenOrdersLists, limit \in 0..MaxLimit :
            make_consume_events_instruction(ooa, limit)
    \/ \E ooa \in OpenOrdersLists, limit \in 0..MaxLimit :
            make_consume_events_permissioned_instruction(ooa, limit)
    \/ \E owner \in {KeypairPubkey, OtherOwner}, d \in 0..MaxDuration, now \in Times :
            find_open_orders_accounts_for_owner(owner, d, now)
    \/ \E d \in 0..MaxDuration, now \in Times : load_orders_for_owner(d, now)
    \/ \E ms \in MarketStates \cup {ExampleMarketState} :
            call_get_bids_asks_addresses(ms)
    \/ find_or_create_associated_token_account(market.keypair, market.market_address)
    \/ load_bids
    \/ load_asks

Spec == Init /\ [][Next]_vars

(***************************************************************************)
(* Properties.  An invocation's outcome is read where it has just          *)
(* returned: pc = "returned", with `calls` its remote calls in order.      *)
(***************************************************************************)
MutatingOps ==
    { "place_limit_bid", "cancel_order", "settle_balance",
      "make_match_orders_transaction", "make_consume_events_instruction",
      "make_consume_events_permissioned_instruction" }

Returned(op) == pc = "returned" /\ result.op = op

ReturnedMutating == pc = "returned" /\ result.op \in MutatingOps

\* The positions in `calls` at which a transaction was submitted.
Submissions == {i \in 1..Len(calls) : calls[i].name = "send_transaction_with_config"}

\* The instruction each mutating operation builds.
BuiltKind(op) ==
    CASE op = "place_limit_bid" -> "new_order"
      [] op = "cancel_order" -> "cancel_order"
      [] op = "settle_balance" -> "settle_funds"
      [] op = "make_match_orders_transaction" -> "match_orders"
      [] op = "make_consume_events_instruction" -> "consume_events"
      [] op = "make_consume_events_permissioned_instruction" -> "consume_events_permissioned"

\* The step in which load() starts and finds the market account owned by
\* another program than the handle's.
LoadOwnerMismatchStep ==
    /\ pc = "idle"
    /\ result'.op = "load"
    /\ Len(calls') = 1
    /\ calls'[1].ret.ok
    /\ calls'[1].ret.value.owner # market.program_id

\* C1: a load() that fetches a market account whose owner program is not the
\* handle's program_id returns the ownership-mismatch error (InvalidArgument)
\* and leaves every field of the handle as it was before the call.
C1_OwnerMismatchLeavesHandle ==
    [][LoadOwnerMismatchStep =>
          /\ pc' = "returned"
          /\ result'.status = "InvalidArgument"
          /\ market' = market]_vars

C1_Witness ==
    /\ Returned("load")
    /\ result.status = "InvalidArgument"
    /\ calls[1].ret.value.owner = ForeignProgram

\* C2: after a successful load() the vault and queue addresses, the flags, the
\* lot sizes and the whole snapshot are the values decoded from the three
\* accounts that this load() fetched.
C2_LoadInstallsFetched ==
    (Returned("load") /\ result.status = "Ok") =>
        /\ Len(calls) = 3
        /\ LET ms == calls[1].ret.value.state
               bids == calls[2].ret.value.slab
               asks == calls[3].ret.value.slab
               b == process_bids(market.orders_key, bids)
               a == process_asks(market.orders_key, asks)
           IN  /\ market.coin_vault = u64_slice_to_bytes(ms.coin_vault)
               /\ market.pc_vault = u64_slice_to_bytes(ms.pc_vault)
               /\ market.request_queue = u64_slice_to_bytes(ms.req_q)
               /\ market.event_queue = u64_slice_to_bytes(ms.event_q)
               /\ market.account_flags = ms.account_flags
               /\ market.coin_lot_size = ms.coin_lot_size
               /\ market.pc_lot_size = ms.pc_lot_size
               /\ market.market_info.bids_address = u64_slice_to_bytes(ms.bids)
               /\ market.market_info.asks_address = u64_slice_to_bytes(ms.asks)
               /\ market.market_info.max_bid = b.extreme
               /\ market.market_info.min_ask = a.extreme
               /\ market.market_info.open_bids = b.ids
               /\ market.market_info.open_bids_prices = b.prices
               /\ market.market_info.open_asks = a.ids
               /\ market.market_info.open_asks_prices = a.prices

C2_Witness ==
    /\ Returned("load")
    /\ result.status = "Ok"
    /\ market.market_info.open_asks # <<>>
    /\ market.market_info.open_bids # <<>>

\* C3: in every invocation of a mutating operation, each transaction
\* submission directly follows a successful get_latest_blockhash call of the
\* same invocation, whose result is the transaction's recency token.
C3_BlockhashFetchedBeforeSubmit ==
    ReturnedMutating =>
        \A i \in Submissions :
            /\ i > 1
            /\ calls[i - 1].name = "get_latest_blockhash"
            /\ calls[i - 1].ret.ok
            /\ calls[i].arg.transaction.message.recent_blockhash = calls[i - 1].ret.value

\* C4: every transaction a mutating operation submits has the handle's own
\* credential as fee payer and carries that credential's signature.
C4_SubmittedPaidAndSigned ==
    ReturnedMutating =>
        \A i \in Submissions :
            /\ calls[i].arg.transaction.message.payer = market.keypair
            /\ market.keypair \in calls[i].arg.transaction.signatures

\* C5: every transaction a mutating operation submits holds exactly one
\* instruction, the one the operation built.
C5_SubmittedOneInstruction ==
    ReturnedMutating =>
        \A i \in Submissions :
            LET instructions == calls[i].arg.transaction.message.instructions
            IN  /\ Len(instructions) = 1
                /\ instructions[1].kind = BuiltKind(result.op)

\* C6: every submission of a mutating operation goes through
\* send_transaction_with_config with skip_preflight = true; the operation
\* makes no other kind of submission.
C6_SubmittedSkippingPreflight ==
    ReturnedMutating =>
        \A i \in 1..Len(calls) :
            /\ calls[i].name \in {"get_latest_blockhash", "send_transaction_with_config"}
            /\ i \in Submissions => calls[i].arg.config.skip_preflight = TRUE

C6_Witness ==
    /\ ReturnedMutating
    /\ Submissions # {}
    /\ result.status = "Ok"

\* C7: place_limit_bid(0) fails the assertion max_bid > 0 with no remote call
\* made (neither a blockhash fetch nor a submission) and the handle unchanged.
C7_PlaceZeroFailsBeforeIo ==
    [][(pc = "idle" /\ result'.op = "place_limit_bid" /\ result'.args.max_bid = 0) =>
          /\ result'.status = "Panic"
          /\ result'.value = "Max bid must be greater than zero"
          /\ calls' = <<>>
          /\ market' = market]_vars

C7_Witness ==
    /\ Returned("place_limit_bid")
    /\ result.args.max_bid = 0
    /\ result.status = "Panic"

\* C8: cancel_order(0) fails the assertion order_id > 0 with no remote call
\* made (neither a blockhash fetch nor a submission) and the handle unchanged.
C8_CancelZeroFailsBeforeIo ==
    [][(pc = "idle" /\ result'.op = "cancel_order" /\ result'.args.order_id = 0) =>
          /\ result'.status = "Panic"
          /\ result'.value = "Order ID must be greater than zero"
          /\ calls' = <<>>
          /\ market' = market]_vars

C8_Witness ==
    /\ Returned("cancel_order")
    /\ result.args.order_id = 0
    /\ result.status = "Panic"

\* The freshness of the cache entry for the owner of the lookup that has just
\* returned, at the time the lookup read the clock.
LookupWasFresh ==
    CacheIsFresh(market.open_orders_accounts_cache, result.args.owner_address,
                 result.args.cache_duration_ms, result.args.now)

ReturnedLookup ==
    /\ pc = "returned"
    /\ result.op \in {"find_open_orders_accounts_for_owner", "load_orders_for_owner"}

\* C9: a lookup that finds a fresh cache entry for the owner (now - ts <
\* cache_duration_ms) completes without any remote lookup.
C9_FreshHitMakesNoRemoteCall ==
    (ReturnedLookup /\ LookupWasFresh) => calls = <<>>

\* C10: a lookup that finds no entry or a stale entry for the owner returns
\* the result of a remote lookup made in that call: on success the returned
\* list is the one find_for_market_and_owner answered, on failure no list.
C10_StaleNeverServed ==
    (ReturnedLookup /\ ~LookupWasFresh) =>
        /\ Len(calls) = 1
        /\ calls[1].name = "find_for_market_and_owner"
        /\ calls[1].arg.owner = result.args.owner_address
        /\ IF result.status = "Ok"
           THEN calls[1].ret.ok /\ result.value = calls[1].ret.value
           ELSE ~calls[1].ret.ok /\ result.value = <<>>

C10_Witness ==
    /\ Returned("find_open_orders_accounts_for_owner")
    /\ HashMap_contains_key(market.open_orders_accounts_cache, result.args.owner_address)
    /\ ~LookupWasFresh
    /\ result.status = "Ok"
    /\ result.value # <<>>

\* C11: for every owner, no step of the handle (so no sequence of
\* find_open_orders_accounts_for_owner / load_orders_for_owner calls) lowers
\* the timestamp stored in that owner's cache entry.
C11_CacheTimestampNeverDecreases ==
    [][\A e \in market.open_orders_accounts_cache :
          \A f \in market'.open_orders_accounts_cache :
              f.key = e.key => f.value.ts >= e.value.ts]_vars

\* A lookup for a cached owner has returned successfully at a later clock
\* reading than the entry's timestamp.
C11_Witness ==
    /\ ReturnedLookup
    /\ result.status = "Ok"
    /\ HashMap_contains_key(market.open_orders_accounts_cache, result.args.owner_address)
    /\ result.args.now >
         HashMap_get(market.open_orders_accounts_cache, result.args.owner_address).ts

\* C12: after a successful lookup that made a remote call, the cache holds an
\* entry for the owner whose account list is the list the remote call
\* returned and whose timestamp is the call's clock reading.
C12_LookupStoresEntry ==
    (ReturnedLookup /\ result.status = "Ok" /\ calls # <<>>) =>
        /\ HashMap_contains_key(market.open_orders_accounts_cache,
                                result.args.owner_address)
        /\ LET entry == HashMap_get(market.open_orders_accounts_cache,
                                    result.args.owner_address)
           IN  /\ entry.accounts = calls[1].ret.value
               /\ entry.ts = result.args.now

LoadedAll == Returned("load") /\ result.status = "Ok"

\* The trees the current load() fetched.
FetchedBids == calls[2].ret.value.slab

FetchedAsks == calls[3].ret.value.slab

OwnNodes(slab) == {n \in slab : u64_slice_to_bytes(n.owner) = market.orders_key}

IsTop(slab, n) == n \in slab /\ \A m \in slab : m = n \/ KeyLess(m.key, n.key)

IsBottom(slab, n) == n \in slab /\ \A m \in slab : m = n \/ KeyLess(n.key, m.key)

\* C14: a tree with zero nodes makes process_bids and process_asks succeed
\* with extreme price 0 and empty id and price lists, and the extreme price
\* is 0 only when the tree had no node.
C14_EmptyTreeYieldsSentinel ==
    /\ (pc = "load_asks") =>
          /\ FetchedBids = {} =>
                /\ frame.bids.extreme = 0
                /\ frame.bids.ids = <<>>
                /\ frame.bids.prices = <<>>
          /\ frame.bids.extreme = 0 => FetchedBids = {}
    /\ ( /\ Returned("load")
         /\ Len(calls) >= 2
         /\ calls[Len(calls)].ret.ok
         /\ calls[Len(calls)].ret.value.valid
         /\ calls[Len(calls)].ret.value.slab = {} ) =>
          /\ Len(calls) = 3
          /\ result.status = "Ok"
    /\ LoadedAll =>
          /\ FetchedBids = {} =>
                /\ market.market_info.max_bid = 0
                /\ market.market_info.open_bids = <<>>
                /\ market.market_info.open_bids_prices = <<>>
          /\ FetchedAsks = {} =>
                /\ market.market_info.min_ask = 0
                /\ market.market_info.open_asks = <<>>
                /\ market.market_info.open_asks_prices = <<>>
          /\ market.market_info.max_bid = 0 => FetchedBids = {}
          /\ market.market_info.min_ask = 0 => FetchedAsks = {}

C14_Witness ==
    /\ LoadedAll
    /\ FetchedBids = {}
    /\ FetchedAsks = {}
    /\ market.market_info.max_bid = 0
    /\ market.market_info.min_ask = 0

\* C15: for an ask tree with N nodes owned by orders_key among M nodes of
\* other owners, process_asks returns exactly the N ids and N prices of the
\* own nodes, and min_ask is the price of the tree's minimum key.
C15_AsksCollectsEveryOwnNode ==
    LoadedAll =>
        LET open_asks == market.market_info.open_asks
            open_asks_prices == market.market_info.open_asks_prices
            own == OwnNodes(FetchedAsks)
        IN  /\ Len(open_asks) = Cardinality(own)
            /\ Len(open_asks_prices) = Cardinality(own)
            /\ {open_asks[i] : i \in 1..Len(open_asks)} = {n.key : n \in own}
            /\ {open_asks_prices[i] : i \in 1..Len(open_asks_prices)}
                  = {ui_price(price(n)) : n \in own}
            /\ \A n \in FetchedAsks :
                  IsBottom(FetchedAsks, n) => market.market_info.min_ask = price(n)

\* An ask tree whose minimum key is another owner's, with an own node above.
C15_Witness ==
    /\ LoadedAll
    /\ OwnNodes(FetchedAsks) # {}
    /\ \E n \in FetchedAsks \ OwnNodes(FetchedAsks) : IsBottom(FetchedAsks, n)
    /\ Len(market.market_info.open_asks) = Cardinality(OwnNodes(FetchedAsks))

\* C16: for a non-empty bid tree process_bids visits only the maximum-keyed
\* node: max_bid is its price, and the own lists hold that node alone if its
\* owner is orders_key and nothing otherwise, whatever else the tree holds.
C16_BidsVisitsTopOnly ==
    (LoadedAll /\ FetchedBids # {}) =>
        \A n \in FetchedBids :
            IsTop(FetchedBids, n) =>
                /\ market.market_info.max_bid = price(n)
                /\ market.market_info.open_bids =
                      IF n \in OwnNodes(FetchedBids) THEN <<n.key>> ELSE <<>>
                /\ market.market_info.open_bids_prices =
                      IF n \in OwnNodes(FetchedBids) THEN <<ui_price(price(n))>>
                                                     ELSE <<>>

\* A bid tree with two own nodes, of which one is reported.
C16_Witness ==
    /\ LoadedAll
    /\ Cardinality(OwnNodes(FetchedBids)) >= 2
    /\ Len(market.market_info.open_bids) = 1

\* C17: for max_bid > 0 and a base lot size L > 0, place_limit_bid builds an
\* order with side Bid, limit price max_bid, quantity L, a quote budget of
\* 1,100,000 whatever max_bid and L are, type post-only, self-trade behaviour
\* abort-transaction and expiry = the clock reading in seconds + 30.
C17_PlacedOrderFields ==
    ( /\ Returned("place_limit_bid")
      /\ result.args.max_bid > 0
      /\ market.coin_lot_size > 0 ) =>
        /\ result.status # "Panic"
        /\ \A i \in Submissions :
              LET ix == calls[i].arg.transaction.message.instructions[1]
              IN  /\ ix.kind = "new_order"
                  /\ ix.side = "Bid"
                  /\ ix.limit_price = result.args.max_bid
                  /\ ix.max_coin_qty = market.coin_lot_size
                  /\ ix.max_native_pc_qty_including_fees = 1100000
                  /\ ix.order_type = "PostOnly"
                  /\ ix.self_trade_behavior = "AbortTransaction"
                  /\ ix.max_ts = result.args.secs + 30

\* An order was submitted on a market whose lot size the last load() installed.
C17_Witness ==
    /\ Returned("place_limit_bid")
    /\ result.args.max_bid > 0
    /\ market.coin_lot_size > 0
    /\ market.coin_lot_size # InitCoinLotSize
    /\ Submissions # {}
    /\ result.args.secs > SeedTs

\* The 32 bytes a [u64; 4] field occupies, read byte by byte.
FieldBytes(words) ==
    [i \in 1..PubkeyBytes |-> words[((i - 1) \div 8) + 1][((i - 1) % 8) + 1]]

C19_ForeignOwnedAccountRejected ==
    (pc \in {"load_bids", "load_asks"} \/ Returned("load")) =>
        \A i \in 1..Len(calls) :
            (calls[i].ret.ok /\ calls[i].ret.value.owner # market.program_id) =>
                /\ Returned("load")
                /\ i = Len(calls)
                /\ result.status = "InvalidArgument"

\* C20: no mutating operation retries: an invocation submits at most once,
\* and a failed blockhash fetch or submission is its last remote call and is
\* what it returns.
C20_NoRetry ==
    ReturnedMutating =>
        /\ Cardinality(Submissions) <= 1
        /\ \A i \in 1..Len(calls) :
              ~calls[i].ret.ok =>
                  /\ i = Len(calls)
                  /\ result.status = "RpcError"
                  /\ result.value = calls[i].ret
        /\ result.status = "Ok" => \A i \in 1..Len(calls) : calls[i].ret.ok

\* A submission that followed a successful blockhash fetch has failed.
C20_Witness ==
    /\ ReturnedMutating
    /\ Len(calls) = 2
    /\ calls[1].ret.ok
    /\ ~calls[2].ret.ok
    /\ result.status = "RpcError"

\* C21: no public operation swallows an error: an invocation in which a
\* remote call failed never returns a success value.
C21_NoErrorSwallowed ==
    (pc = "returned" /\ \E i \in 1..Len(calls) : ~calls[i].ret.ok) =>
        result.status # "Ok"

Elements(seq) == {seq[i] : i \in 1..Len(seq)}

Keys(slab) == {n.key : n \in slab}

\* C23: a successful load() rebuilds the snapshot from the trees it fetched:
\* every own-order id in the new snapshot is the key of a node of the newly
\* fetched tree of its side, each best price is 0 or the price of a fetched
\* node, and an id of the previous snapshot that the newly fetched trees do
\* not hold is not in the new snapshot.
C23_SnapshotRebuiltFromFetchedTrees ==
    [][ /\ pc = "load_asks" =>
              Elements(frame.bids.ids) \subseteq Keys(calls[2].ret.value.slab)
        /\ (pc = "load_asks" /\ result'.op = "load" /\ result'.status = "Ok") =>
              LET old == market.market_info
                  new == market'.market_info
                  bids == calls'[2].ret.value.slab
                  asks == calls'[3].ret.value.slab
              IN  /\ Elements(new.open_bids) \subseteq Keys(bids)
                  /\ Elements(new.open_asks) \subseteq Keys(asks)
                  /\ Len(new.open_bids) <= Cardinality(bids)
                  /\ Len(new.open_asks) <= Cardinality(asks)
                  /\ new.max_bid \in {0} \cup {price(n) : n \in bids}
                  /\ new.min_ask \in {0} \cup {price(n) : n \in asks}
                  /\ \A id \in Elements(old.open_bids) \ Keys(bids) :
                        id \notin Elements(new.open_bids)
                  /\ \A id \in Elements(old.open_asks) \ Keys(asks) :
                        id \notin Elements(new.open_asks) ]_vars

\* A load() in progress has fetched a bid tree that lacks the own bid of the
\* previous snapshot, which is still stored.
C23_Witness ==
    /\ pc = "load_asks"
    /\ market.market_info.open_bids # <<>>
    /\ market.market_info.open_asks # <<>>
    /\ Elements(market.market_info.open_bids) \cap Keys(calls[2].ret.value.slab) = {}
    /\ frame.bids.ids = <<>>

\* The step in which load() has fetched and decoded the market account.
LoadDecodedStep == pc = "idle" /\ result'.op = "load" /\ pc' = "load_bids"

\* C24 as stated: once the handle is constructed (its first load() done), the
\* decimals and the lot sizes never change, whatever a later load() fetches.
C24_LotSizesImmutable ==
    [][ /\ market'.coin_decimals = market.coin_decimals
        /\ market'.pc_decimals = market.pc_decimals
        /\ market'.coin_lot_size = market.coin_lot_size
        /\ market'.pc_lot_size = market.pc_lot_size ]_vars

\* C24 as amended: the decimals never change; the lot sizes are overwritten by
\* every load() whose market account passes the ownership check and decodes,
\* with the lot sizes of the control block it fetched, whether or not that
\* load() then succeeds, and change in no other step.
C24_LotSizesFollowLoad ==
    [][ /\ market'.coin_decimals = market.coin_decimals
        /\ market'.pc_decimals = market.pc_decimals
        /\ LoadDecodedStep =>
              /\ market'.coin_lot_size = calls'[1].ret.value.state.coin_lot_size
              /\ market'.pc_lot_size = calls'[1].ret.value.state.pc_lot_size
        /\ ~LoadDecodedStep =>
              /\ market'.coin_lot_size = market.coin_lot_size
              /\ market'.pc_lot_size = market.pc_lot_size ]_vars

\* A later load() has decoded a control block other than the one loaded
\* before and installed its lot sizes.
C24_Witness ==
    /\ pc = "load_bids"
    /\ market.market_info.bids_address # frame.addresses.bids_address
    /\ market.coin_lot_size = frame.market_state.coin_lot_size
    /\ market.pc_lot_size = frame.market_state.pc_lot_size
    /\ market.coin_decimals = InitCoinDecimals

\* C25: a mutating operation builds its instruction before its first remote
\* call: an operation that fails building it has made no remote call, and
\* place_limit_bid on a handle whose coin_lot_size is 0 fails that way.
C25_ConstructionFailsBeforeIo ==
    ReturnedMutating =>
        /\ result.status = "Panic" => calls = <<>>
        /\ ( /\ result.op = "place_limit_bid"
             /\ result.args.max_bid > 0
             /\ market.coin_lot_size = 0 ) =>
               /\ result.status = "Panic"
               /\ result.value = "called Option::unwrap() on a None value"
               /\ calls = <<>>

C25_Witness ==
    /\ Returned("place_limit_bid")
    /\ result.args.max_bid > 0
    /\ market.coin_lot_size = 0
    /\ result.status = "Panic"

\* The handle's control-block fields and its snapshot's tree addresses all
\* come from the control block market_state.
HandleFrom(market_state) ==
    /\ market.coin_vault = u64_slice_to_bytes(market_state.coin_vault)
    /\ market.pc_vault = u64_slice_to_bytes(market_state.pc_vault)
    /\ market.request_queue = u64_slice_to_bytes(market_state.req_q)
    /\ market.event_queue = u64_slice_to_bytes(market_state.event_q)
    /\ market.account_flags = market_state.account_flags
    /\ market.coin_lot_size = market_state.coin_lot_size
    /\ market.pc_lot_size = market_state.pc_lot_size
    /\ market.market_info.bids_address = u64_slice_to_bytes(market_state.bids)
    /\ market.market_info.asks_address = u64_slice_to_bytes(market_state.asks)

\* C26: a load() that fails after the ownership check leaves the handle as it
\* was: whenever no load() is in progress, the vaults, queues, flags and lot
\* sizes come from the same control block as the snapshot.
C26_FailedLoadLeavesNoPartialState ==
    pc \in {"idle", "returned"} => \E market_state \in MarketStates : HandleFrom(market_state)

\* The i-th remote call of the invocation did not deliver a decodable account.
FetchFailed(i) == ~calls[i].ret.ok \/ ~calls[i].ret.value.valid

\* C27: load() makes only get_account calls, for the market account, then the
\* bids account, then the asks account: three when it succeeds, one on an
\* ownership mismatch, none after a fetch or decode failure, and every such
\* failure is what load() returns.
C27_LoadReadsInOrder ==
    Returned("load") =>
        /\ Len(calls) \in 1..3
        /\ \A i \in 1..Len(calls) : calls[i].name = "get_account"
        /\ calls[1].arg = market.market_address
        /\ Len(calls) >= 2 =>
              /\ ~FetchFailed(1)
              /\ calls[1].ret.value.owner = market.program_id
              /\ calls[2].arg = u64_slice_to_bytes(calls[1].ret.value.state.bids)
        /\ Len(calls) = 3 =>
              /\ ~FetchFailed(2)
              /\ calls[3].arg = u64_slice_to_bytes(calls[1].ret.value.state.asks)
        /\ result.status = "Ok" <=> (Len(calls) = 3 /\ ~FetchFailed(3))
        /\ (calls[1].ret.ok /\ calls[1].ret.value.owner # market.program_id) =>
              /\ Len(calls) = 1
              /\ result.status = "InvalidArgument"
        /\ \A i \in 1..Len(calls) :
              /\ ~calls[i].ret.ok => (i = Len(calls) /\ result.status = "RpcError")
              /\ (calls[i].ret.ok /\ ~calls[i].ret.value.valid) =>
                    /\ i = Len(calls)
                    /\ result.status \in {"DecodeError", "InvalidArgument"}

\* A load() has stopped at the bids account, the asks account unfetched.
C27_Witness ==
    /\ Returned("load")
    /\ Len(calls) = 2
    /\ FetchFailed(2)
    /\ result.status # "Ok"

SubmittedInstructions(i) == calls[i].arg.transaction.message.instructions

\* C29: the transaction make_match_orders_transaction(limit) submits carries a
\* match-orders instruction with that limit, and the transaction each
\* consume-events operation submits carries an instruction naming the
\* supplied open-orders accounts, in the supplied order, with the caller's
\* limit.
C29_SubmittedCarriesCallerInputs ==
    /\ Returned("make_match_orders_transaction") =>
          \A i \in Submissions :
              /\ Len(SubmittedInstructions(i)) >= 1
              /\ SubmittedInstructions(i)[1].kind = "match_orders"
              /\ SubmittedInstructions(i)[1].limit = result.args.limit
    /\ ( \/ Returned("make_consume_events_instruction")
         \/ Returned("make_consume_events_permissioned_instruction") ) =>
          \A i \in Submissions :
              /\ Len(SubmittedInstructions(i)) >= 1
              /\ SubmittedInstructions(i)[1].open_orders_accounts =
                    result.args.open_orders_accounts
              /\ SubmittedInstructions(i)[1].limit = result.args.limit

\* C30: the instruction make_consume_events_permissioned_instruction submits
\* names the handle's event_queue both as the event queue and as the
\* consume-events authority, whatever the handle's state.
C30_AuthorityIsEventQueue ==
    Returned("make_consume_events_permissioned_instruction") =>
        \A i \in Submissions :
            /\ Len(SubmittedInstructions(i)) = 1
            /\ SubmittedInstructions(i)[1].kind = "consume_events_permissioned"
            /\ SubmittedInstructions(i)[1].event_queue = market.event_queue
            /\ SubmittedInstructions(i)[1].consume_events_authority = market.event_queue

\* Submitted on a handle whose event queue a load() after construction set.
C30_Witness ==
    /\ Returned("make_consume_events_permissioned_instruction")
    /\ Submissions # {}
    /\ market.event_queue # DefaultPubkey
    /\ result.args.open_orders_accounts # <<>>

\* The order ids of the snapshot's own-order lists.
SnapshotIds ==
    Elements(market.market_info.open_bids) \cup Elements(market.market_info.open_asks)

\* C31: the instruction cancel_order(order_id) submits is a cancel on the bid
\* side whose 128-bit order id is the 64-bit argument zero-extended, so the id
\* is below 2^64, and an id of the snapshot's own-order lists is the one
\* cancelled only if its upper 64 bits are zero.
C31_CancelIdZeroExtended ==
    Returned("cancel_order") =>
        \A i \in Submissions :
            LET ix == SubmittedInstructions(i)[1]
            IN  /\ ix.kind = "cancel_order"
                /\ ix.side = "Bid"
                /\ ix.order_id.hi = 0
                /\ ix.order_id.lo = result.args.order_id
                /\ \A id \in SnapshotIds : id.hi # 0 => ix.order_id # id

\* A cancel submitted while the snapshot lists own orders on both sides, one
\* of whose lower 64 bits are the argument.
C31_Witness ==
    /\ Returned("cancel_order")
    /\ Submissions # {}
    /\ market.market_info.open_bids # <<>>
    /\ market.market_info.open_asks # <<>>
    /\ \E id \in SnapshotIds : id.lo = result.args.order_id

\* C32: every operation of the handle starts when no other is in progress
\* (the caller serializes them); then no order instruction mixes the
\* vault/queue addresses of one control block with the bids/asks addresses
\* of another: all of them come from a single control block.
C32_SerializedNeverUsesMixedState ==
    /\ Returned("place_limit_bid") =>
          \A i \in Submissions :
              LET ix == SubmittedInstructions(i)[1]
              IN  \E ms \in MarketStates :
                      /\ ix.coin_vault = u64_slice_to_bytes(ms.coin_vault)
                      /\ ix.pc_vault = u64_slice_to_bytes(ms.pc_vault)
                      /\ ix.request_queue = u64_slice_to_bytes(ms.req_q)
                      /\ ix.event_queue = u64_slice_to_bytes(ms.event_q)
                      /\ ix.bids = u64_slice_to_bytes(ms.bids)
                      /\ ix.asks = u64_slice_to_bytes(ms.asks)
    /\ Returned("cancel_order") =>
          \A i \in Submissions :
              LET ix == SubmittedInstructions(i)[1]
              IN  \E ms \in MarketStates :
                      /\ ix.event_queue = u64_slice_to_bytes(ms.event_q)
                      /\ ix.bids = u64_slice_to_bytes(ms.bids)
                      /\ ix.asks = u64_slice_to_bytes(ms.asks)

\* The step in which an order-submitting operation runs from call to return.
MutatingStep == pc = "idle" /\ pc' = "returned" /\ result'.op \in MutatingOps

\* C33: an order-submitting operation leaves every field of the handle as it
\* was before the call (addresses, lot sizes, flags, snapshot, open-orders
\* cache), whether it succeeds, fails or panics.
C33_OrderOperationsLeaveHandle ==
    [][MutatingStep => market' = market]_vars

\* An order operation whose submission the ledger rejected.
C33_Witness ==
    /\ Returned("settle_balance")
    /\ Submissions # {}
    /\ result.status = "RpcError"

C35_SnapshotAgreesWithOrdersKey ==
    (Returned("new") \/ LoadedAll) =>
        /\ \A id \in Elements(market.market_info.open_asks) :
               \E n \in OwnNodes(FetchedAsks) : n.key = id
        /\ \A id \in Elements(market.market_info.open_bids) :
               \E n \in OwnNodes(FetchedBids) : n.key = id /\ IsTop(FetchedBids, n)
        /\ \A n \in OwnNodes(FetchedAsks) :
               n.key \in Elements(market.market_info.open_asks)

C37_WalksTerminate ==
    /\ pc = "load_asks" =>
          /\ frame.bids.steps = 1
          /\ frame.bids.rest \subseteq FetchedBids
          /\ Cardinality(FetchedBids \ frame.bids.rest) <= 1
    /\ LoadedAll =>
          LET a == process_asks(market.orders_key, FetchedAsks)
          IN  /\ market.market_info.open_asks = a.ids
              /\ a.steps = Cardinality(FetchedAsks) + 1
              /\ a.rest = {}

\* A load() that walked a bids tree and an asks tree of more than one node.
C37_Witness ==
    /\ LoadedAll
    /\ Cardinality(FetchedBids) > 1
    /\ Cardinality(FetchedAsks) > 1

\* The i-th price is the price of the order with the i-th id.
Aligned(ids, prices) ==
    /\ Len(ids) = Len(prices)
    /\ \A i \in 1..Len(ids) : prices[i] = ui_price(ids[i].hi)

Ascending(ids) == \A i, j \in 1..Len(ids) : i < j => KeyLess(ids[i], ids[j])

\* C38: in the stored snapshot and in the extractor results (the bids result
\* load() holds, the asks result of the tree it fetched), the own-order id
\* list and price list of a side have the same length and the i-th price
\* belongs to the i-th id; the ask ids are in ascending key order.
C38_ListsAligned ==
    /\ Aligned(market.market_info.open_bids, market.market_info.open_bids_prices)
    /\ Aligned(market.market_info.open_asks, market.market_info.open_asks_prices)
    /\ Ascending(market.market_info.open_asks)
    /\ Aligned(frame.bids.ids, frame.bids.prices)
    /\ LoadedAll =>
          LET a == process_asks(market.orders_key, FetchedAsks)
          IN  Aligned(a.ids, a.prices) /\ Ascending(a.ids)

\* A snapshot listing two own asks of different prices and an own bid.
C38_Witness ==
    /\ LoadedAll
    /\ Len(market.market_info.open_asks) = 2
    /\ market.market_info.open_asks_prices[1] # market.market_info.open_asks_prices[2]
    /\ Len(market.market_info.open_bids) = 1
====
